---- MODULE Spec2Model ----
(***************************************************************************)
(* The customer-support conversation graph of graph.py, with the tools of  *)
(* agent.py and the calls of llm.py it uses, driven turn by turn by the    *)
(* chat front end of app.py.                                               *)
(*                                                                         *)
(* Python dicts (the turn state, the memory, order rows, action records)   *)
(* are functions whose domain is the set of keys present.  A value that    *)
(* the code only ever tests for truthiness and that is None or a non-empty *)
(* dict (order facts) is the empty dict when it is None.  Strings built by *)
(* formatting are tuples of their parts.                                   *)
(***************************************************************************)
EXTENDS Integers, Sequences, FiniteSets, TLC

VARIABLES
    store,          \* st.session_state.graph_state["memory"], kept by the caller
    state,          \* the GraphState threaded through the nodes of one turn
    pc,             \* the node about to run, or idle / end / raised
    turn,           \* number of turns the caller has completed
    outputWrites,   \* how many node returns of this turn carried the key "output"
    nlu,            \* the reply nlu_classify gave in the step just taken, if any
    answer,         \* the assistant text the caller shows for the last turn
    logged,         \* the lines the invocation in progress has appended to
                    \* logs/actions.jsonl and logs/handoffs.jsonl
    trace,          \* the nodes the invocation in progress has run, in order
    indexes         \* which retrieval handles were ready in the retrieve step
                    \* of the invocation in progress, if it has taken one

vars == <<store, state, pc, turn, outputWrites, nlu, answer, logged, trace, indexes>>

-----------------------------------------------------------------------------
(* Bounds of the model *)

MaxTurns == 3

\* largest counter value in a memory handed in from outside
MaxCount == 1

-----------------------------------------------------------------------------
(* Python values *)

None == "None"

EmptyDict == [k \in {} |-> k]

Get(d, k, default) == IF k \in DOMAIN d THEN d[k] ELSE default

Put(d, k, v) == [x \in DOMAIN d \cup {k} |-> IF x = k THEN v ELSE d[x]]

Pop(d, k) == [x \in DOMAIN d \ {k} |-> d[x]]

\* dict.update, which is how a node's return value is merged into the state
Merge(d, upd) ==
    [x \in DOMAIN d \cup DOMAIN upd |-> IF x \in DOMAIN upd THEN upd[x] ELSE d[x]]

\* str.lower() on the labels that occur
Lower(s) == IF s = "Track" THEN "track" ELSE s

-----------------------------------------------------------------------------
(* graph.py configuration *)

AUTO_ESCALATE_ON == TRUE

MAX_REPEAT_INTENT == 2

MAX_NO_FACTS == 2

-----------------------------------------------------------------------------
(* The order data: data/olist_cleaned.csv and index/orders_meta.parquet *)

\* rows of the orders CSV, in storage order; purchase_date and the anchor
\* dates are day numbers counted from 2018-01-01
CsvRows ==
    << [order_id |-> "o1", customer_email |-> "e1", order_status |-> "delivered",
        purchase_date |-> 0, delivery_time_days |-> 5, review_score |-> 5],
       [order_id |-> "o2", customer_email |-> "e1", order_status |-> "shipped",
        purchase_date |-> 7, delivery_time_days |-> 11, review_score |-> 1],
       [order_id |-> "o3", customer_email |-> "e2", order_status |-> "canceled",
        purchase_date |-> 3, delivery_time_days |-> 10, review_score |-> 3],
       [order_id |-> "o4", customer_email |-> "e1", order_status |-> "delivered",
        purchase_date |-> 5, delivery_time_days |-> 4, review_score |-> 4],
       [order_id |-> "o5", customer_email |-> "e1", order_status |-> "delivered",
        purchase_date |-> 1, delivery_time_days |-> 4, review_score |-> 4],
       [order_id |-> "o6", customer_email |-> "e1", order_status |-> "delivered",
        purchase_date |-> 6, delivery_time_days |-> 4, review_score |-> 4],
       [order_id |-> "o7", customer_email |-> "e1", order_status |-> "delivered",
        purchase_date |-> 2, delivery_time_days |-> 4, review_score |-> 4],
       [order_id |-> "o8", customer_email |-> "e1", order_status |-> "delivered",
        purchase_date |-> 4, delivery_time_days |-> 4, review_score |-> 4],
       [order_id |-> "o9", customer_email |-> "e1", order_status |-> "delivered",
        purchase_date |-> 3, delivery_time_days |-> 4, review_score |-> 4],
       [order_id |-> "o10", customer_email |-> "e1", order_status |-> "delivered",
        purchase_date |-> 3, delivery_time_days |-> 4, review_score |-> 4],
       [order_id |-> "o11", customer_email |-> "e1", order_status |-> "delivered",
        purchase_date |-> 0, delivery_time_days |-> 4, review_score |-> 4],
       [order_id |-> "o12", customer_email |-> "e1", order_status |-> "delivered",
        purchase_date |-> 1, delivery_time_days |-> 4, review_score |-> 4] >>

\* the metadata frame of the order index holds the same rows
META == CsvRows

OrderIds == {CsvRows[i].order_id : i \in DOMAIN CsvRows}

\* user texts, by what the code looks for in them: the email-shaped token
\* re.search finds, the order id rapidfuzz scores above 85, and the
\* fallback keywords the lower-cased text contains
Texts ==
    { [email |-> None, fuzzy |-> None, words |-> {"pay"}],
      [email |-> "e1", fuzzy |-> "o1", words |-> {"order", "status"}],
      [email |-> "e0", fuzzy |-> "o3", words |-> {"cancel"}] }

\* sort_values("purchase_date", ascending=False) then head(limit): the
\* position a matching row takes is the number of matching rows that are
\* more recent, or as recent and stored earlier
RowsOfEmail(email) == {i \in DOMAIN CsvRows : CsvRows[i].customer_email = email}

RankOf(i, S) ==
    1 + Cardinality({j \in S : \/ CsvRows[j].purchase_date > CsvRows[i].purchase_date
                                \/ /\ CsvRows[j].purchase_date = CsvRows[i].purchase_date
                                   /\ j < i})

\* variant: the oldest orders come first
get_orders_by_email_oldestFirst(email, limit) ==
    LET S == RowsOfEmail(email)
        n == IF Cardinality(S) < limit THEN Cardinality(S) ELSE limit
    IN  [r \in 1..n |-> CsvRows[CHOOSE i \in S : RankOf(i, S) = Cardinality(S) + 1 - r]]

get_orders_by_email(email, limit) ==
    LET S == RowsOfEmail(email)
        n == IF Cardinality(S) < limit THEN Cardinality(S) ELSE limit
    IN  [r \in 1..n |-> CsvRows[CHOOSE i \in S : RankOf(i, S) = r]]

first_order_facts(orders) == IF Len(orders) > 0 THEN orders[1] ELSE EmptyDict

\* variant: ten days already count as late
is_delayed_from10(r) == "delivery_time_days" \in DOMAIN r /\ r.delivery_time_days >= 10

\* the two policy flags; a value missing from the data is a key missing from
\* the row
is_delayed(r) == "delivery_time_days" \in DOMAIN r /\ r.delivery_time_days > 10

low_review(r) == "review_score" \in DOMAIN r /\ r.review_score <= 2

\* the first row of meta with this order id, with the two flags added
get_order_facts_in(meta, order_id) ==
    LET S == {i \in DOMAIN meta : meta[i].order_id = order_id}
    IN  IF S = {} THEN EmptyDict
        ELSE LET r == meta[CHOOSE i \in S : \A j \in S : i <= j]
             IN  Put(Put(r, "is_delayed", is_delayed(r)), "low_review", low_review(r))

get_order_facts(order_id) == get_order_facts_in(META, order_id)

fuzzy_find_order_id(q) == q.fuzzy

-----------------------------------------------------------------------------
(* llm.py *)

Labels ==
    {"track", "payment", "refund", "return", "cancel", "kb", "analytics",
     "general", "handoff_yes", "handoff_no"}

\* what the model may put in the "intent" field of its JSON reply: the five
\* order-requiring labels, two of the others, a label in another case, and
\* a label that is not in the schema
ModelIntents ==
    {"track", "payment", "refund", "return", "cancel", "kb", "general", "Track",
     "complaint"}

\* what the model may put in "slots": nothing, nulls, empty strings, values
ModelSlots ==
    { EmptyDict,
      [order_id |-> None, email |-> None, reason |-> None],
      [order_id |-> "", email |-> None, reason |-> "damaged"],
      [order_id |-> "zz", email |-> "e1", reason |-> "damaged"] }

YesNo == {"yes", "no", None}

\* the keyword rules of the except branch
KeywordIntent(q) ==
    IF q.words \cap {"refund", "return", "cancel", "exchange"} # {} THEN "refund"
    ELSE IF \/ ("order" \in q.words /\ q.words \cap {"where", "track", "status"} # {})
            \/ "track" \in q.words THEN "track"
    ELSE IF q.words \cap {"payment", "pay", "installment"} # {} THEN "payment"
    ELSE "general"

\* how the call inside the try block can end: the request fails, the reply
\* holds a {...} block that json.loads rejects, the reply holds no {...}
\* block at all (prose or nothing), or the reply holds a JSON object
CallOutcomes == {"call failed", "broken JSON", "no JSON", "parsed"}

\* the JSON objects the model may reply with; "intent" and "yes_no" may be
\* null, and a null "slots" is written as the empty dict that "or {}" makes
\* of it
ModelReplies ==
    [intent : ModelIntents \cup {None}, slots : ModelSlots, yes_no : YesNo]

\* _extract_json: the {...} block of the reply, "{}" when there is none
\* (obj is the object the block holds, when it holds one)
extract_json(outcome, obj) == IF outcome = "no JSON" THEN EmptyDict ELSE obj

\* x or d
OrElse(x, d) == IF x = None THEN d ELSE x

\* the value nlu_classify returns for the text q when the call ends in the
\* given way: the try block's result, or the except block's keyword rule
nlu_result(q, outcome, obj) ==
    IF outcome \in {"call failed", "broken JSON"}
    THEN [intent |-> KeywordIntent(q), slots |-> EmptyDict, yes_no |-> None]
    ELSE LET o == extract_json(outcome, obj)
         IN  [intent |-> OrElse(Get(o, "intent", None), "general"),
              slots  |-> Get(o, "slots", EmptyDict),
              yes_no |-> Get(o, "yes_no", None)]

\* every value nlu_classify can return for the text q
nlu_classify(q) ==
    { nlu_result(q, outcome, obj) : outcome \in CallOutcomes, obj \in ModelReplies }

\* every value generate_answer can return: the model's stripped text, which
\* may be empty, or one of the canned error strings
GenerationResults == {"model text", "", "canned error text"}

-----------------------------------------------------------------------------
(* agent.py: the action tools *)

\* the "today" anchors the environment may be configured with (day numbers:
\* 2018-01-20 and 2018-03-01)
TodayAnchors == {19, 59}

\* variant: a shipped order no longer counts as not yet delivered
PreDelivery_noShipped == {"created", "approved", "processing"}

PreDelivery == {"created", "approved", "processing", "shipped"}

\* pandas' NaT, which pd.to_datetime returns for an empty string or a missing
\* timestamp: a day number no date has
NaT == -1000

\* variant: the last day of the window is already outside it
WithinWindow_strict(days_since, window_days) == days_since < window_days

\* "if days_since <= window_days"
WithinWindow(days_since, window_days) == days_since <= window_days

\* variant: an order that is not yet delivered by its status is told to
\* cancel whether or not a delivery date can be computed
check_return_eligibility_byStatus(facts, window_days, today) ==
    IF facts = EmptyDict THEN [eligible |-> FALSE, reason |-> <<"no order facts">>]
    ELSE LET status == Lower(Get(facts, "order_status", ""))
             computable == /\ "purchase_date" \in DOMAIN facts
                           /\ "delivery_time_days" \in DOMAIN facts
             delivered == IF facts.purchase_date = NaT THEN NaT
                          ELSE facts.purchase_date + facts.delivery_time_days
         IN  IF status \in PreDelivery
             THEN [eligible |-> FALSE,
                   reason |-> <<"not delivered yet, cancel instead">>,
                   suggest |-> "cancel"]
             ELSE IF computable
             THEN IF delivered # NaT /\ WithinWindow(today - delivered, window_days)
                  THEN [eligible |-> TRUE, reason |-> <<"within window">>,
                        delivered_date |-> delivered, today_anchor |-> today]
                  ELSE [eligible |-> FALSE,
                        reason |-> <<"outside window (delivered)", delivered>>,
                        today_anchor |-> today]
             ELSE [eligible |-> FALSE, reason |-> <<"missing delivery date info">>]

\* purchase_date absent from facts is the value pd.to_datetime turns into
\* None (None itself, or text it cannot parse); delivery_time_days absent is
\* None or a value int() rejects.  With purchase NaT the sum "delivered" is
\* NaT, which is not None, and the day difference is not a number, so that
\* the comparison with the window is false.
check_return_eligibility(facts, window_days, today) ==
    IF facts = EmptyDict THEN [eligible |-> FALSE, reason |-> <<"no order facts">>]
    ELSE LET status == Lower(Get(facts, "order_status", ""))
             computable == /\ "purchase_date" \in DOMAIN facts
                           /\ "delivery_time_days" \in DOMAIN facts
             delivered == IF facts.purchase_date = NaT THEN NaT
                          ELSE facts.purchase_date + facts.delivery_time_days
         IN  IF status \in PreDelivery /\ ~computable
             THEN [eligible |-> FALSE,
                   reason |-> <<"not delivered yet, cancel instead">>,
                   suggest |-> "cancel"]
             ELSE IF computable
             THEN IF delivered # NaT /\ WithinWindow(today - delivered, window_days)
                  THEN [eligible |-> TRUE, reason |-> <<"within window">>,
                        delivered_date |-> delivered, today_anchor |-> today]
                  ELSE [eligible |-> FALSE,
                        reason |-> <<"outside window (delivered)", delivered>>,
                        today_anchor |-> today]
             ELSE [eligible |-> FALSE, reason |-> <<"missing delivery date info">>]

\* variant: the record always says a return was requested
start_return_fixedReason(order_id, reason) ==
    [rma_id |-> <<"RMA", order_id>>, status |-> "initiated",
     reason |-> <<"user requested", "return">>]

start_return(order_id, reason) ==
    [rma_id |-> <<"RMA", order_id>>, status |-> "initiated", reason |-> reason]

cancel_order(order_id, reason) ==
    [cancel_id |-> <<"CXL", order_id>>, status |-> "requested", reason |-> reason]

create_ticket(order_id, issue) ==
    [ticket_id |-> <<"TKT", order_id>>, status |-> "open", issue |-> issue]

\* the lines the tools append to the log files
ReturnLogLine(order_id, reason) ==
    [file |-> "logs/actions.jsonl", type |-> "return", order_id |-> order_id,
     rma_id |-> <<"RMA", order_id>>, status |-> "initiated", reason |-> reason]

CancelLogLine(order_id, reason) ==
    [file |-> "logs/actions.jsonl", type |-> "cancel", order_id |-> order_id,
     status |-> "requested", reason |-> reason]

HandoffLogLine(order_id, issue, extra) ==
    [file |-> "logs/handoffs.jsonl", handoff |-> TRUE, status |-> "awaiting_human",
     order_id |-> IF order_id = "" THEN None ELSE order_id,
     issue |-> issue, extra |-> extra]

\* the two notification calls each return True or False
NotifyResults == BOOLEAN \X BOOLEAN

escalate_to_human(order_id, issue, extra, notified) ==
    [handoff |-> TRUE, status |-> "awaiting_human",
     order_id |-> IF order_id = "" THEN None ELSE order_id,
     issue |-> issue, extra |-> extra,
     notified_slack |-> notified[1], notified_email |-> notified[2]]

-----------------------------------------------------------------------------
(* The turn: one invocation of graph.APP from app.handle_user_message *)

\* variant: the node writes into the mapping it was given
WriteToCopy_noCopy(m, written) == written

\* mem = dict(...): the node writes into a copy of the mapping m, which
\* ends up as written, and m keeps its content
WriteToCopy(m, written) == m

\* the mapping the caller passed in, after the node has run.  The state
\* starts with the caller's own mapping (handle_user_message copies the
\* graph state one level deep), so classify is handed that very object;
\* the copies made by classify and resolve_facts are one level deep too, so
\* the stuck_counts the supervisor reads is still the caller's if the
\* caller's mapping had one.
CallerMapping(caller, node, upd) ==
    IF node = "classify" THEN WriteToCopy(caller, upd.memory)
    ELSE IF node = "supervise_and_escalate" /\ "stuck_counts" \in DOMAIN caller
    THEN Put(caller, "stuck_counts",
             WriteToCopy(caller.stuck_counts, upd.memory.stuck_counts))
    ELSE caller

\* a node returned upd and the graph moves on to the node next
Return(upd, next) ==
    /\ state' = Merge(state, upd)
    /\ store' = CallerMapping(store, pc, upd)
    /\ outputWrites' = outputWrites + (IF "output" \in DOMAIN upd THEN 1 ELSE 0)
    /\ pc' = next
    /\ trace' = Append(trace, pc)
    /\ UNCHANGED <<turn, answer>>

\* a node that made no classification call and wrote no log line returned
Returns(upd, next) ==
    /\ Return(upd, next)
    /\ nlu' = EmptyDict
    /\ UNCHANGED indexes
    /\ UNCHANGED logged

\* a node returned after one of its tools appended line to a log file
ReturnsLogged(upd, next, line) ==
    /\ Return(upd, next)
    /\ nlu' = EmptyDict
    /\ UNCHANGED indexes
    /\ logged' = Append(logged, line)

\* a node raised: the invocation ends without a result
Raise ==
    /\ pc' = "raised"
    /\ nlu' = EmptyDict
    /\ UNCHANGED indexes
    /\ trace' = Append(trace, pc)
    /\ UNCHANGED <<store, state, turn, outputWrites, answer, logged>>

Init ==
    /\ store = EmptyDict
    /\ state = EmptyDict
    /\ pc = "idle"
    /\ turn = 0
    /\ outputWrites = 0
    /\ nlu = EmptyDict
    /\ answer = EmptyDict
    /\ logged = <<>>
    /\ trace = <<>>
    /\ indexes = EmptyDict

\* handle_user_message up to the invoke: the previous graph state is copied
\* and the new input is set
StartTurn ==
    /\ pc = "idle"
    /\ turn < MaxTurns
    /\ \E q \in Texts :
          state' = [memory |-> store, input |-> q]
    /\ pc' = "classify"
    /\ outputWrites' = 0
    /\ answer' = EmptyDict
    /\ UNCHANGED <<store, turn, nlu, logged, trace, indexes>>

\* variant: a classifier intent other than "general" is not overridden
EffectiveIntent_keepGuess(mem, r) ==
    IF /\ Get(mem, "pending_handoff", FALSE)
       /\ r.yes_no \in {"yes", "no"}
       /\ r.intent = "general"
    THEN IF r.yes_no = "yes" THEN "handoff_yes" ELSE "handoff_no"
    ELSE r.intent

\* the intent classify stores, given the memory and the classifier's reply
EffectiveIntent(mem, r) ==
    IF /\ Get(mem, "pending_handoff", FALSE)
       /\ r.yes_no \in {"yes", "no"}
    THEN IF r.yes_no = "yes" THEN "handoff_yes" ELSE "handoff_no"
    ELSE r.intent

\* variant: a slot the classifier left empty erases its memory key
StoreSlot_erasing(mem, slots, slot, key) ==
    IF Get(slots, slot, None) \notin {None, ""}
    THEN Put(mem, key, slots[slot]) ELSE Pop(mem, key)

\* if slots.get(slot): mem[key] = slots[slot]
StoreSlot(mem, slots, slot, key) ==
    IF Get(slots, slot, None) \notin {None, ""}
    THEN Put(mem, key, slots[slot]) ELSE mem

StoreSlots(mem, slots) ==
    StoreSlot(StoreSlot(StoreSlot(mem, slots, "order_id", "current_order_id"),
                        slots, "email", "current_email"),
              slots, "reason", "last_reason")

classify ==
    /\ pc = "classify"
    /\ LET q == state.input
           mem == Get(state, "memory", EmptyDict)
       IN  \E r \in nlu_classify(q) :
             LET intent == EffectiveIntent(mem, r)
             IN  /\ Return([intent |-> intent, memory |-> StoreSlots(mem, r.slots)],
                           "resolve_facts")
                 /\ nlu' = r
                 /\ UNCHANGED indexes
                 /\ UNCHANGED logged

\* what agent.rag_search and agent.kb_search may return: ranked META rows
\* (their order ids), ranked knowledge records
OrderHits == { <<>>, <<"o1", "o2">> }

KbHits == { <<>>, <<"kb1">> }

\* variant: the ranking is returned whether or not the handles are there
rag_search_unguarded(ready, ranked) == ranked

\* rag_search: nothing unless the index, its metadata and the embedding model
\* are loaded (ready), which for the two files means that they exist
rag_search(ready, ranked) == IF ready THEN ranked ELSE <<>>

\* kb_search: the same over the knowledge-base index and its metadata
kb_search(ready, ranked) == IF ready THEN ranked ELSE <<>>

retrieve ==
    /\ pc = "retrieve"
    /\ \E orders_ready \in BOOLEAN, kb_ready \in BOOLEAN,
          ranked \in OrderHits, kb_ranked \in KbHits :
          /\ Return([hits |-> rag_search(orders_ready, ranked),
                     kb_hits |-> kb_search(kb_ready, kb_ranked)], "resolve_facts_2")
          /\ nlu' = EmptyDict
          /\ indexes' = [orders |-> orders_ready, kb |-> kb_ready]
          /\ UNCHANGED logged

\* variant: an order id already in memory is not replaced
Remember_keepsOld(mem, facts) ==
    IF facts # EmptyDict /\ "order_id" \in DOMAIN facts /\ "current_order_id" \notin DOMAIN mem
    THEN Put(mem, "current_order_id", facts.order_id) ELSE mem

\* "if facts and 'order_id' in facts: mem['current_order_id'] = ..."
Remember(mem, facts) ==
    IF facts # EmptyDict /\ "order_id" \in DOMAIN facts
    THEN Put(mem, "current_order_id", facts.order_id) ELSE mem

Fetched(r, facts) ==
    [facts |-> facts, orders |-> r.orders, mem |-> Remember(r.mem, facts)]

\* 1) exact email lookup; csv_ok tells whether the CSV lookup succeeds or
\*    raises inside the try
ByEmail(q, mem, csv_ok) ==
    IF q.email = None THEN [facts |-> EmptyDict, orders |-> <<>>, mem |-> mem]
    ELSE LET orders == IF csv_ok THEN get_orders_by_email(q.email, 10) ELSE <<>>
         IN  Fetched([orders |-> orders, mem |-> Put(mem, "current_email", q.email)],
                     first_order_facts(orders))

\* 2) fuzzy order id from the text
ByFuzzy(q, r) ==
    IF r.facts = EmptyDict /\ fuzzy_find_order_id(q) # None
    THEN Fetched(r, get_order_facts(fuzzy_find_order_id(q)))
    ELSE r

\* variant: the remembered order id is dropped once it has been used
ByMemory_forgets(r) ==
    IF r.facts = EmptyDict /\ "current_order_id" \in DOMAIN r.mem
    THEN [r EXCEPT !.facts = get_order_facts(r.mem.current_order_id),
                   !.mem = Pop(r.mem, "current_order_id")]
    ELSE r

\* 3) the order id kept in memory
ByMemory(r) ==
    IF r.facts = EmptyDict /\ "current_order_id" \in DOMAIN r.mem
    THEN [r EXCEPT !.facts = get_order_facts(r.mem.current_order_id)]
    ELSE r

\* 4) the order id of the first retrieval hit
ByTopHit(hits, r) ==
    IF r.facts = EmptyDict /\ Len(hits) > 0
    THEN Fetched(r, get_order_facts(hits[1]))
    ELSE r

ResolveResult(r) == [order_facts |-> r.facts, orders |-> r.orders, memory |-> r.mem]

\* the one element of a one-element set
The(S) == CHOOSE x \in S : TRUE

\* variant: the order id kept in memory is tried before the fuzzy match
ResolveFacts_memoryFirst(st, csv_ok) ==
    The({ ResolveResult(ByTopHit(Get(st, "hits", <<>>), r3) ) :
            r3 \in { ByFuzzy(st.input, r2) :
              r2 \in { ByMemory(r1) :
                r1 \in { ByEmail(st.input, Get(st, "memory", EmptyDict), csv_ok) } } } })

\* the body of resolve_facts: the four steps in order, each working on what
\* the one before has left
ResolveFacts(st, csv_ok) ==
    The({ ResolveResult(ByTopHit(Get(st, "hits", <<>>), r3)) :
            r3 \in { ByMemory(r2) :
              r2 \in { ByFuzzy(st.input, r1) :
                r1 \in { ByEmail(st.input, Get(st, "memory", EmptyDict), csv_ok) } } } })

route_after_resolve_1(st) ==
    IF Get(st, "order_facts", EmptyDict) # EmptyDict THEN "policy_and_actions"
    ELSE "retrieve"

\* variant: without facts the second resolve goes straight to compose
route_after_resolve_2_toCompose(st) ==
    IF Get(st, "order_facts", EmptyDict) # EmptyDict THEN "policy_and_actions"
    ELSE "compose"

route_after_resolve_2(st) ==
    IF Get(st, "order_facts", EmptyDict) # EmptyDict THEN "policy_and_actions"
    ELSE "supervise_and_escalate"

resolve_facts ==
    /\ pc = "resolve_facts"
    /\ \E csv_ok \in BOOLEAN :
          \E upd \in {ResolveFacts(state, csv_ok)} :
             Returns(upd, route_after_resolve_1(Merge(state, upd)))

resolve_facts_2 ==
    /\ pc = "resolve_facts_2"
    /\ \E csv_ok \in BOOLEAN :
          \E upd \in {ResolveFacts(state, csv_ok)} :
             Returns(upd, route_after_resolve_2(Merge(state, upd)))

Truthy(d, k) == k \in DOMAIN d /\ d[k] = TRUE

\* variant: the flags are worked out again from the score and the days
AutoTickets_recomputed(actions, facts, oid) ==
    LET a1 == IF low_review(facts)
              THEN Append(actions, create_ticket(oid, <<"low review complaint">>))
              ELSE actions
    IN  IF is_delayed(facts)
        THEN Append(a1, create_ticket(oid, <<"late delivery">>))
        ELSE a1

\* variant: a low review opens its ticket twice
AutoTickets_twice(actions, facts, oid) ==
    LET a0 == IF Truthy(facts, "low_review")
              THEN Append(actions, create_ticket(oid, <<"low review complaint">>))
              ELSE actions
        a1 == IF Truthy(facts, "low_review")
              THEN Append(a0, create_ticket(oid, <<"low review complaint">>))
              ELSE a0
    IN  IF Truthy(facts, "is_delayed")
        THEN Append(a1, create_ticket(oid, <<"late delivery">>))
        ELSE a1

\* "auto tickets": one for a low review, then one for a late delivery
AutoTickets(actions, facts, oid) ==
    LET a1 == IF Truthy(facts, "low_review")
              THEN Append(actions, create_ticket(oid, <<"low review complaint">>))
              ELSE actions
    IN  IF Truthy(facts, "is_delayed")
        THEN Append(a1, create_ticket(oid, <<"late delivery">>))
        ELSE a1

policy_and_actions ==
    /\ pc = "policy_and_actions"
    /\ LET facts == Get(state, "order_facts", EmptyDict)
           intent == Lower(Get(state, "intent", ""))
           actions == Get(state, "actions", <<>>)
       IN  IF facts = EmptyDict
           THEN Returns([actions |-> actions], "supervise_and_escalate")
           ELSE LET oid == Get(facts, "order_id", None)
                    status == Lower(Get(facts, "order_status", ""))
                    a2 == AutoTickets(actions, facts, oid)
                IN  IF intent = "cancel"
                    THEN IF status \in PreDelivery
                         THEN \/ ReturnsLogged([actions |-> Append(a2,
                                           cancel_order(oid, <<"user requested cancel">>))],
                                        "supervise_and_escalate",
                                        CancelLogLine(oid, <<"user requested cancel">>))
                              \/ Raise   \* the append to logs/actions.jsonl fails
                         ELSE \/ \E n \in NotifyResults :
                                   ReturnsLogged([actions |-> Append(a2,
                                             escalate_to_human(oid,
                                                <<"cancel after delivery not supported">>,
                                                [status |-> status], n))],
                                          "supervise_and_escalate",
                                          HandoffLogLine(oid,
                                                <<"cancel after delivery not supported">>,
                                                [status |-> status]))
                              \/ Raise   \* the append to logs/handoffs.jsonl fails
                    ELSE IF intent \in {"refund", "return"}
                    THEN \E today \in TodayAnchors :
                           LET elig == check_return_eligibility(facts, 30, today)
                           IN  IF elig.eligible
                               THEN \/ ReturnsLogged([actions |-> Append(a2,
                                                 start_return(oid, <<"user requested", intent>>))],
                                              "supervise_and_escalate",
                                              ReturnLogLine(oid, <<"user requested", intent>>))
                                    \/ Raise
                               ELSE \/ \E n \in NotifyResults :
                                         ReturnsLogged([actions |-> Append(a2,
                                                   escalate_to_human(oid,
                                                      <<intent, "not eligible">>,
                                                      [eligibility |-> elig], n))],
                                                "supervise_and_escalate",
                                                HandoffLogLine(oid,
                                                      <<intent, "not eligible">>,
                                                      [eligibility |-> elig]))
                                    \/ Raise
                    ELSE Returns([actions |-> a2], "supervise_and_escalate")

StuckIssue == <<"conversation stuck (repeat/no-facts)">>

OrderRequired == {"track", "payment", "refund", "return", "cancel"}

\* the counters after "track repeats" and "track no-facts", before the trigger

\* variant: the action check is dropped from the repeat test
CountRepeat_anyAction(sc, intent, last_intent, took_action) ==
    IF intent # "" /\ last_intent # "" /\ intent = last_intent
    THEN sc.repeat_intent + 1 ELSE 0

\* variant: the first turn of a conversation already counts as a repeat
CountRepeat_first(sc, intent, last_intent, took_action) ==
    IF intent # "" /\ (last_intent = "" \/ intent = last_intent) /\ ~took_action
    THEN sc.repeat_intent + 1 ELSE 0

CountRepeat(sc, intent, last_intent, took_action) ==
    IF intent # "" /\ last_intent # "" /\ intent = last_intent /\ ~took_action
    THEN sc.repeat_intent + 1 ELSE 0

\* variant: an order-requiring intent counts whether or not facts were found
CountNoFacts_anyFacts(sc, intent, has_facts) ==
    IF intent \in OrderRequired THEN sc.no_facts + 1 ELSE 0

\* variant: "payment" is missing from the order-requiring intents
CountNoFacts_noPayment(sc, intent, has_facts) ==
    IF intent \in {"track", "refund", "return", "cancel"} /\ ~has_facts
    THEN sc.no_facts + 1 ELSE 0

CountNoFacts(sc, intent, has_facts) ==
    IF intent \in OrderRequired /\ ~has_facts THEN sc.no_facts + 1 ELSE 0

\* variant: the thresholds are compared with > instead of >=
ShouldAuto_strict(repeat_intent, no_facts) ==
    AUTO_ESCALATE_ON /\ (repeat_intent > MAX_REPEAT_INTENT \/ no_facts > MAX_NO_FACTS)

\* variant: both counters must be at their thresholds
ShouldAuto_both(repeat_intent, no_facts) ==
    AUTO_ESCALATE_ON /\ (repeat_intent >= MAX_REPEAT_INTENT /\ no_facts >= MAX_NO_FACTS)

\* variant: only the repeat counter triggers the handoff
ShouldAuto_repeatOnly(repeat_intent, no_facts) ==
    AUTO_ESCALATE_ON /\ repeat_intent >= MAX_REPEAT_INTENT

ShouldAuto(repeat_intent, no_facts) ==
    AUTO_ESCALATE_ON /\ (repeat_intent >= MAX_REPEAT_INTENT \/ no_facts >= MAX_NO_FACTS)

\* variant: the escalation leaves a question pending
MarkHandoff_pending(mem) ==
    Put(Put(mem, "auto_handoff", TRUE), "pending_handoff", TRUE)

\* mem["auto_handoff"] = True; mem.pop("pending_handoff", None)
MarkHandoff(mem) == Pop(Put(mem, "auto_handoff", TRUE), "pending_handoff")

\* variant: the intent is remembered only on a turn that escalates
RememberIntent_onTrigger(mem, intent, fired) ==
    IF intent # "" /\ fired THEN Put(mem, "last_intent", intent) ELSE mem

\* "if intent: mem['last_intent'] = intent", on either path
RememberIntent(mem, intent, fired) ==
    IF intent # "" THEN Put(mem, "last_intent", intent) ELSE mem

supervise_and_escalate ==
    /\ pc = "supervise_and_escalate"
    /\ LET mem == Get(state, "memory", EmptyDict)
           actions == Get(state, "actions", <<>>)
           intent == Lower(Get(state, "intent", ""))
           facts == Get(state, "order_facts", EmptyDict)
           has_facts == facts # EmptyDict
           sc0 == Get(mem, "stuck_counts", EmptyDict)
           sc == [repeat_intent |-> Get(sc0, "repeat_intent", 0),
                  no_facts |-> Get(sc0, "no_facts", 0)]
           last_intent == Get(mem, "last_intent", "")
           took_action == Len(actions) > 0
           rep == CountRepeat(sc, intent, last_intent, took_action)
           nof == CountNoFacts(sc, intent, has_facts)
           SetLast(m) == RememberIntent(m, intent, ShouldAuto(rep, nof))
       IN  IF ShouldAuto(rep, nof)
           THEN LET oid == IF has_facts THEN Get(facts, "order_id", None) ELSE None
                    extra == [intent |-> intent, repeat_intent |-> rep, no_facts |-> nof,
                              current_email |-> Get(mem, "current_email", None),
                              current_order_id |-> Get(mem, "current_order_id", None)]
                    mem1 == MarkHandoff(mem)
                    mem2 == Put(mem1, "stuck_counts", [repeat_intent |-> 0, no_facts |-> 0])
                IN  \/ \E n \in NotifyResults :
                          ReturnsLogged([actions |-> Append(actions,
                                    escalate_to_human(IF oid = None THEN "" ELSE oid,
                                                      StuckIssue, extra, n)),
                                  memory |-> SetLast(mem2)],
                                 "compose",
                                 HandoffLogLine(IF oid = None THEN "" ELSE oid,
                                                StuckIssue, extra))
                    \/ Raise   \* the append to logs/handoffs.jsonl fails
           ELSE Returns([actions |-> actions,
                        memory |-> SetLast(Put(mem, "stuck_counts",
                                      [repeat_intent |-> rep, no_facts |-> nof]))],
                       "compose")

\* the reply text, by the branch that built it and the parts it is built from
HandoffNotice(hand) ==
    [kind |-> "handoff",
     reference |-> IF hand # EmptyDict THEN hand.order_id ELSE None,
     via |-> IF hand = EmptyDict THEN <<"log">>
             ELSE IF hand.notified_slack /\ hand.notified_email THEN <<"Slack", "email">>
             ELSE IF hand.notified_slack THEN <<"Slack">>
             ELSE IF hand.notified_email THEN <<"email">>
             ELSE <<"log">>]

FirstHandoff(acts) ==
    LET S == {i \in DOMAIN acts : Truthy(acts[i], "handoff")}
    IN  IF S = {} THEN EmptyDict ELSE acts[CHOOSE i \in S : \A j \in S : i <= j]

\* variant: every order of the lookup gets a line
OrderListing_all(orders) ==
    [kind |-> "orders",
     count |-> Len(orders),
     lines |-> [i \in 1..Len(orders) |-> orders[i].order_id]]

OrderListing(orders) ==
    [kind |-> "orders",
     count |-> Len(orders),
     lines |-> [i \in 1..(IF Len(orders) < 5 THEN Len(orders) ELSE 5) |->
                    orders[i].order_id]]

Clarification == [kind |-> "clarify"]

\* variant: only the last action is listed
Generated_lastActionOnly(kind, text, acts) ==
    [kind |-> kind, text |-> text,
     acts |-> IF Len(acts) > 1 THEN <<acts[Len(acts)]>> ELSE acts]

\* a generated answer: which prompt was sent, what came back, and the
\* "Actions taken:" section if there is one
Generated(kind, text, acts) == [kind |-> kind, text |-> text, acts |-> acts]

\* variant: the order listing is tested before the auto-handoff flag
ComposeBranch_ordersFirst(st) ==
    LET facts == Get(st, "order_facts", EmptyDict)
        kb_hits == Get(st, "kb_hits", <<>>)
        mem == Get(st, "memory", EmptyDict)
        orders == Get(st, "orders", <<>>)
    IN  IF Len(orders) > 0 THEN "orders"
        ELSE IF Truthy(mem, "auto_handoff") THEN "handoff"
        ELSE IF facts = EmptyDict /\ Len(kb_hits) > 0 THEN "kb"
        ELSE IF facts = EmptyDict THEN "clarify"
        ELSE "grounded"

\* the if-chain of compose: which return statement is reached
ComposeBranch(st) ==
    LET facts == Get(st, "order_facts", EmptyDict)
        kb_hits == Get(st, "kb_hits", <<>>)
        mem == Get(st, "memory", EmptyDict)
        orders == Get(st, "orders", <<>>)
    IN  IF Truthy(mem, "auto_handoff") THEN "handoff"
        ELSE IF Len(orders) > 0 THEN "orders"
        ELSE IF facts = EmptyDict /\ Len(kb_hits) > 0 THEN "kb"
        ELSE IF facts = EmptyDict THEN "clarify"
        ELSE "grounded"

compose ==
    /\ pc = "compose"
    /\ LET acts == Get(state, "actions", <<>>)
           orders == Get(state, "orders", <<>>)
           branch == ComposeBranch(state)
       IN  CASE branch = "handoff" ->
                  Returns([output |-> HandoffNotice(FirstHandoff(acts))], "end")
             [] branch = "orders" ->
                  Returns([output |-> OrderListing(orders)], "end")
             [] branch = "kb" ->
                  \E text \in GenerationResults :
                     Returns([output |-> Generated("kb", text, <<>>)], "end")
             [] branch = "clarify" ->
                  Returns([output |-> Clarification], "end")
             [] branch = "grounded" ->
                  \E text \in GenerationResults :
                     Returns([output |-> Generated("grounded", text, acts)], "end")

\* handle_user_message after the invoke: only the memory is kept
Finish ==
    /\ pc = "end"
    /\ store' = Get(state, "memory", store)
    /\ answer' = Get(state, "output", [kind |-> "no response"])
    /\ state' = EmptyDict
    /\ pc' = "idle"
    /\ turn' = turn + 1
    /\ logged' = <<>>
    /\ trace' = <<>>
    /\ indexes' = EmptyDict
    /\ UNCHANGED <<outputWrites, nlu>>

\* variant: the memory of the failed invocation is stored
Recover_keepsTurnMemory ==
    /\ pc = "raised"
    /\ answer' = [kind |-> "apology"]
    /\ store' = Get(state, "memory", store)
    /\ state' = EmptyDict
    /\ pc' = "idle"
    /\ turn' = turn + 1
    /\ logged' = <<>>
    /\ trace' = <<>>
    /\ indexes' = EmptyDict
    /\ UNCHANGED <<outputWrites, nlu>>

\* handle_user_message's except branch
Recover ==
    /\ pc = "raised"
    /\ answer' = [kind |-> "apology"]
    /\ state' = EmptyDict
    /\ pc' = "idle"
    /\ turn' = turn + 1
    /\ logged' = <<>>
    /\ trace' = <<>>
    /\ indexes' = EmptyDict
    /\ UNCHANGED <<store, outputWrites, nlu>>

Next ==
    \/ StartTurn
    \/ classify
    \/ resolve_facts
    \/ retrieve
    \/ resolve_facts_2
    \/ policy_and_actions
    \/ supervise_and_escalate
    \/ compose
    \/ Finish
    \/ Recover

Spec == Init /\ [][Next]_vars

\* graph.APP.invoke accepts any memory mapping: the last turn of a
\* conversation whose stored memory is arbitrary
Opt(k, Vals) == {EmptyDict} \cup {[x \in {k} |-> v] : v \in Vals}

AnyMemory ==
    { Merge(a, Merge(b, Merge(c, Merge(d, e)))) :
        a \in Opt("current_order_id", {"o1", "zz"}),
        b \in Opt("last_intent", {"track", "general"}),
        c \in Opt("pending_handoff", BOOLEAN),
        d \in Opt("auto_handoff", {TRUE}),
        e \in Opt("stuck_counts",
                  [repeat_intent : 0..MaxCount, no_facts : 0..MaxCount]) }

InitAny ==
    /\ store \in AnyMemory
    /\ state = EmptyDict
    /\ pc = "idle"
    /\ turn = MaxTurns - 1
    /\ outputWrites = 0
    /\ nlu = EmptyDict
    /\ answer = EmptyDict
    /\ logged = <<>>
    /\ trace = <<>>
    /\ indexes = EmptyDict

SpecAny == InitAny /\ [][Next]_vars

\* check_return_eligibility called on its own, with any facts record, the
\* policy engine's window and any anchor date
Statuses == {"created", "approved", "processing", "shipped", "delivered", "canceled"}

EligibilityFacts ==
    {EmptyDict} \cup
    { Merge([order_id |-> "o1", order_status |-> s], Merge(p, d)) :
        s \in Statuses,
        p \in Opt("purchase_date", {0, NaT}),
        d \in Opt("delivery_time_days", {5, 11}) }

\* 2018-01-04, 2018-01-20, 2018-02-05, 2018-02-06, 2018-03-01
EligibilityAnchors == {3, 19, 35, 36, 59}

InitElig ==
    /\ store = EmptyDict
    /\ state \in [facts : EligibilityFacts, window_days : {30}, today : EligibilityAnchors]
    /\ pc = "check_return_eligibility"
    /\ turn = 0
    /\ outputWrites = 0
    /\ nlu = EmptyDict
    /\ answer = EmptyDict
    /\ logged = <<>>
    /\ trace = <<>>
    /\ indexes = EmptyDict

CheckEligibility ==
    /\ pc = "check_return_eligibility"
    /\ state' = Put(state, "eligibility",
                    check_return_eligibility(state.facts, state.window_days, state.today))
    /\ pc' = "returned"
    /\ UNCHANGED <<store, turn, outputWrites, nlu, answer, logged, trace, indexes>>

NextElig == CheckEligibility

SpecElig == InitElig /\ [][NextElig]_vars

\* nlu_classify as a function of the text and of how the call ends
NluWords == {"cancel", "exchange", "track", "order", "status", "pay"}

NluReplies ==
    { [intent |-> i, slots |-> EmptyDict, yes_no |-> y] :
          i \in {"cancel", "kb", None}, y \in {"yes", None} }

InitNlu ==
    /\ store = EmptyDict
    /\ state \in [user_input : [email : {None}, fuzzy : {None}, words : SUBSET NluWords],
                   outcome : CallOutcomes, reply : NluReplies]
    /\ pc = "nlu_classify"
    /\ turn = 0
    /\ outputWrites = 0
    /\ nlu = EmptyDict
    /\ answer = EmptyDict
    /\ logged = <<>>
    /\ trace = <<>>
    /\ indexes = EmptyDict

ClassifyText ==
    /\ pc = "nlu_classify"
    /\ state' = Put(state, "result",
                    nlu_result(state.user_input, state.outcome, state.reply))
    /\ pc' = "returned"
    /\ UNCHANGED <<store, turn, outputWrites, nlu, answer, logged, trace, indexes>>

NextNlu == ClassifyText

SpecNlu == InitNlu /\ [][NextNlu]_vars

\* get_order_facts as a function of the metadata and of the order id
FactRows ==
    { Merge([order_id |-> "o1", order_status |-> s], Merge(d, r)) :
        s \in {"shipped", "delivered"},
        d \in Opt("delivery_time_days", {9, 10, 11}),
        r \in Opt("review_score", {1, 2, 3}) }

InitFacts ==
    /\ store = EmptyDict
    /\ state \in [meta : {<<row>> : row \in FactRows}, order_id : {"o1", "zz"}]
    /\ pc = "get_order_facts"
    /\ turn = 0
    /\ outputWrites = 0
    /\ nlu = EmptyDict
    /\ answer = EmptyDict
    /\ logged = <<>>
    /\ trace = <<>>
    /\ indexes = EmptyDict

FetchFacts ==
    /\ pc = "get_order_facts"
    /\ state' = Put(state, "facts", get_order_facts_in(state.meta, state.order_id))
    /\ pc' = "returned"
    /\ UNCHANGED <<store, turn, outputWrites, nlu, answer, logged, trace, indexes>>

NextFacts == FetchFacts

SpecFacts == InitFacts /\ [][NextFacts]_vars

\* The lazily loaded module globals of agent.py, used by two turns that run
\* in one process at once. A caller goes through the handles in the order a
\* turn first needs them; for each it tests "is None" and, if so, loads the
\* value and assigns it. Nothing is held between the test and the assignment.
Handles == <<"FAISS", "META", "MODEL", "KB_FAISS", "KB_META", "_ORDERS_DF">>

Callers == {"turn1", "turn2"}

InitLoad ==
    /\ store = EmptyDict
    /\ state = [loaded |-> [i \in DOMAIN Handles |-> FALSE],
                loads  |-> [i \in DOMAIN Handles |-> 0],
                at     |-> [t \in Callers |-> [handle |-> 1, step |-> "test"]]]
    /\ pc = "load_resources"
    /\ turn = 0
    /\ outputWrites = 0
    /\ nlu = EmptyDict
    /\ answer = EmptyDict
    /\ logged = <<>>
    /\ trace = <<>>
    /\ indexes = EmptyDict

\* "if FAISS is None ..."
TestHandle(t) ==
    /\ pc = "load_resources"
    /\ state.at[t].step = "test"
    /\ state.at[t].handle \in DOMAIN Handles
    /\ LET i == state.at[t].handle
       IN  state' = [state EXCEPT !.at[t] =
                        IF state.loaded[i] THEN [handle |-> i + 1, step |-> "test"]
                        ELSE [handle |-> i, step |-> "load"]]
    /\ UNCHANGED <<store, pc, turn, outputWrites, nlu, answer, logged, trace, indexes>>

\* "... FAISS = faiss.read_index(INDEX_PATH)"
LoadHandle(t) ==
    /\ pc = "load_resources"
    /\ state.at[t].step = "load"
    /\ LET i == state.at[t].handle
       IN  state' = [state EXCEPT !.loaded[i] = TRUE,
                                  !.loads[i] = @ + 1,
                                  !.at[t] = [handle |-> i + 1, step |-> "test"]]
    /\ UNCHANGED <<store, pc, turn, outputWrites, nlu, answer, logged, trace, indexes>>

NextLoad ==
    \/ \E t \in Callers : TestHandle(t)
    \/ \E t \in Callers : LoadHandle(t)

SpecLoad == InitLoad /\ [][NextLoad]_vars

\* LangGraph runs the node a turn has reached, and handle_user_message goes
\* on after the invoke returns or raises: a turn in progress is never left
\* waiting. Whether another message arrives is up to the user.
TurnStep ==
    \/ classify
    \/ resolve_facts
    \/ retrieve
    \/ resolve_facts_2
    \/ policy_and_actions
    \/ supervise_and_escalate
    \/ compose
    \/ Finish
    \/ Recover

\* memories that earlier turns can have left: none (every turn so far ended
\* in the apology), one of a conversation that is stuck, one with an order
LaterMemories ==
    { EmptyDict,
      [stuck_counts |-> [repeat_intent |-> 1, no_facts |-> 1],
       current_order_id |-> "zz", last_intent |-> "track",
       current_email |-> "e1", last_reason |-> "damaged"],
      [stuck_counts |-> [repeat_intent |-> 1, no_facts |-> 0],
       current_order_id |-> "o2", last_intent |-> "kb", current_email |-> "e1"] }

\* the last turn that is followed, from one of these memories
InitFair ==
    /\ store \in LaterMemories
    /\ state = EmptyDict
    /\ pc = "idle"
    /\ turn = MaxTurns - 1
    /\ outputWrites = 0
    /\ nlu = EmptyDict
    /\ answer = EmptyDict
    /\ logged = <<>>
    /\ trace = <<>>
    /\ indexes = EmptyDict

SpecFair == InitFair /\ [][Next]_vars /\ WF_vars(TurnStep)

TypeOK ==
    /\ pc \in {"idle", "classify", "resolve_facts", "retrieve", "resolve_facts_2",
               "policy_and_actions", "supervise_and_escalate", "compose", "end",
               "raised"}
    /\ turn \in 0..MaxTurns

-----------------------------------------------------------------------------
(* Properties *)

TurnMemory == Get(state, "memory", EmptyDict)

TurnActions == Get(state, "actions", <<>>)

TurnFacts == Get(state, "order_facts", EmptyDict)

\* positions of the supervisor's handoff records in a list of actions
StuckHandoffs(acts) ==
    {i \in DOMAIN acts : Truthy(acts[i], "handoff") /\ acts[i].issue = StuckIssue}

\* the reply is the empty string
IsEmptyString(o) == o.kind \in {"kb", "grounded"} /\ o.text = "" /\ o.acts = <<>>

\* C1: when the graph has run to its end, output was set exactly once and
\* is a non-empty string, whatever the external calls returned.
C1_OutputSetOnceNonEmpty ==
    pc = "end" =>
        /\ outputWrites = 1
        /\ "output" \in DOMAIN state
        /\ ~IsEmptyString(state.output)

\* C2: the reply is built by exactly the first branch of the chain
\* handoff, order listing, knowledge-base answer, clarification,
\* order-grounded answer whose condition holds.
C2_BranchPrecedence ==
    pc = "end" =>
        LET k == state.output.kind
            c1 == Truthy(TurnMemory, "auto_handoff")
            c2 == Len(Get(state, "orders", <<>>)) > 0
            c3 == TurnFacts = EmptyDict /\ Len(Get(state, "kb_hits", <<>>)) > 0
            c4 == TurnFacts = EmptyDict /\ Len(Get(state, "kb_hits", <<>>)) = 0
            c5 == TurnFacts # EmptyDict
        IN  /\ k \in {"handoff", "orders", "kb", "clarify", "grounded"}
            /\ (k = "handoff") = c1
            /\ (k = "orders") = (~c1 /\ c2)
            /\ (k = "kb") = (~c1 /\ ~c2 /\ c3)
            /\ (k = "clarify") = (~c1 /\ ~c2 /\ ~c3 /\ c4)
            /\ (k = "grounded") = (~c1 /\ ~c2 /\ ~c3 /\ ~c4 /\ c5)

\* a turn in which both the handoff flag and an order listing are present
\* ends in the handoff notice
C2_Witness ==
    /\ pc = "end"
    /\ Truthy(TurnMemory, "auto_handoff")
    /\ Len(Get(state, "orders", <<>>)) > 0
    /\ state.output.kind = "handoff"

\* C3: auto_handoff is set at compose, and the reply is the handoff notice,
\* only on a turn in which the supervisor's trigger fired.
C3_HandoffOnlyWhenFired ==
    (/\ pc = "end"
     /\ Truthy(TurnMemory, "auto_handoff") \/ state.output.kind = "handoff")
        => StuckHandoffs(TurnActions) # {}

\* C4: the supervisor fires exactly when a counter, after its update, has
\* reached 2; firing appends one handoff record with the resolved order id,
\* the fixed issue and the diagnostic context, sets auto_handoff, removes
\* pending_handoff and zeroes both counters; not firing appends nothing and
\* leaves auto_handoff and pending_handoff as they were.
C4_SupervisorTrigger ==
    [][ (pc = "supervise_and_escalate" /\ pc' = "compose") =>
          LET mem == TurnMemory
              mem2 == Get(state', "memory", EmptyDict)
              acts == TurnActions
              acts2 == Get(state', "actions", <<>>)
              sc2 == mem2.stuck_counts
          IN  IF Len(acts2) # Len(acts)
              THEN LET hand == acts2[Len(acts2)]
                   IN  /\ Len(acts2) = Len(acts) + 1
                       /\ SubSeq(acts2, 1, Len(acts)) = acts
                       /\ hand.handoff = TRUE
                       /\ hand.issue = <<"conversation stuck (repeat/no-facts)">>
                       /\ hand.order_id = IF TurnFacts # EmptyDict
                                          THEN TurnFacts.order_id ELSE None
                       /\ hand.extra.intent = Lower(state.intent)
                       /\ hand.extra.current_email = Get(mem, "current_email", None)
                       /\ hand.extra.current_order_id = Get(mem, "current_order_id", None)
                       /\ (hand.extra.repeat_intent >= 2 \/ hand.extra.no_facts >= 2)
                       /\ Truthy(mem2, "auto_handoff")
                       /\ "pending_handoff" \notin DOMAIN mem2
                       /\ sc2 = [repeat_intent |-> 0, no_facts |-> 0]
              ELSE /\ acts2 = acts
                   /\ sc2.repeat_intent < 2 /\ sc2.no_facts < 2
                   /\ \A k \in {"auto_handoff", "pending_handoff"} :
                         /\ (k \in DOMAIN mem2) = (k \in DOMAIN mem)
                         /\ k \in DOMAIN mem => mem2[k] = mem[k] ]_vars

\* the supervisor has fired on a memory that held pending_handoff
C4_Witness ==
    /\ pc = "compose"
    /\ Truthy(store, "pending_handoff")
    /\ "pending_handoff" \notin DOMAIN TurnMemory
    /\ Truthy(TurnMemory, "auto_handoff")
    /\ StuckHandoffs(TurnActions) # {}

\* the value a counter has after the supervisor's update and before the
\* trigger resets it: the fired handoff reports it, otherwise memory holds it
UpdatedCount(st, acts0, name) ==
    LET acts2 == Get(st, "actions", <<>>)
    IN  IF Len(acts2) > Len(acts0) THEN acts2[Len(acts2)].extra[name]
        ELSE st.memory.stuck_counts[name]

\* C5: the supervisor adds 1 to repeat_intent exactly when its intent equals
\* memory.last_intent and the action list it receives is empty; in every
\* other case it sets repeat_intent to 0.
C5_RepeatCounter ==
    [][ (pc = "supervise_and_escalate" /\ pc' = "compose") =>
          LET mem == TurnMemory
              old == Get(Get(mem, "stuck_counts", EmptyDict), "repeat_intent", 0)
              same == /\ "last_intent" \in DOMAIN mem
                      /\ Lower(state.intent) = mem.last_intent
          IN  UpdatedCount(state', TurnActions, "repeat_intent")
                 = IF same /\ Len(TurnActions) = 0 THEN old + 1 ELSE 0 ]_vars

\* a repeated intent without action has been counted
C5_Witness ==
    /\ pc = "compose"
    /\ Lower(state.intent) = Get(store, "last_intent", "")
    /\ TurnActions = <<>>
    /\ TurnMemory.stuck_counts.repeat_intent = 1

\* C6: the supervisor adds 1 to no_facts exactly when the intent is one of
\* track, payment, refund, return, cancel and no order facts were resolved;
\* in every other case it sets no_facts to 0.
C6_NoFactsCounter ==
    [][ (pc = "supervise_and_escalate" /\ pc' = "compose") =>
          LET old == Get(Get(TurnMemory, "stuck_counts", EmptyDict), "no_facts", 0)
              needs == Lower(state.intent) \in
                          {"track", "payment", "refund", "return", "cancel"}
          IN  UpdatedCount(state', TurnActions, "no_facts")
                 = IF needs /\ TurnFacts = EmptyDict THEN old + 1 ELSE 0 ]_vars

\* a payment question without resolved facts has been counted
C6_Witness ==
    /\ pc = "compose"
    /\ state.intent = "payment"
    /\ TurnFacts = EmptyDict
    /\ TurnMemory.stuck_counts.no_facts = 1

\* at the end of a turn: no action but the supervisor's own was taken
QuietTurn == \A i \in DOMAIN TurnActions : i \in StuckHandoffs(TurnActions)

\* at the end of a turn: the intent is the one the previous turn left in
\* the caller's memory
SameIntentAsBefore == Lower(state.intent) = Get(store, "last_intent", "")

\* at the end of a turn: a counter after the update, before any reset
EndCount(name) ==
    IF StuckHandoffs(TurnActions) # {}
    THEN TurnActions[Len(TurnActions)].extra[name]
    ELSE TurnMemory.stuck_counts[name]

RepeatAfterUpdate == EndCount("repeat_intent")

\* C7 as stated: from empty memory, once two consecutive turns had the same
\* intent and took no action, repeat_intent has reached 2 and the auto-handoff
\* has been emitted.  (No order is known at the end of the second turn, so
\* neither turn resolved facts and neither took an action.)
C7_TwoIdenticalTurnsEscalate ==
    (/\ pc = "end" /\ turn = 1
     /\ SameIntentAsBefore
     /\ QuietTurn
     /\ "current_order_id" \notin DOMAIN TurnMemory)
        => /\ StuckHandoffs(TurnActions) # {}
           /\ RepeatAfterUpdate >= 2

\* C7 amended: from empty memory the first turn leaves repeat_intent at 0
\* and two turns bring it to 1 at most; it reaches 2, with the auto-handoff
\* emitted, exactly on a turn that repeats the previous intent without
\* action when the counter already stood at 1 (the second consecutive
\* repeat, the third turn at the earliest); a handoff emitted earlier is due
\* to no_facts; a turn with a different intent sets repeat_intent to 0.
C7_SecondRepeatEscalates ==
    pc = "end" =>
        LET before == Get(Get(store, "stuck_counts", EmptyDict), "repeat_intent", 0)
            fired == StuckHandoffs(TurnActions) # {}
        IN  /\ turn = 0 => RepeatAfterUpdate = 0
            /\ turn = 1 => RepeatAfterUpdate <= 1
            /\ (SameIntentAsBefore /\ QuietTurn /\ before = 1)
                  => (RepeatAfterUpdate = 2 /\ fired)
            /\ RepeatAfterUpdate >= 2
                  => (turn >= 2 /\ SameIntentAsBefore /\ QuietTurn /\ before = 1)
            /\ fired => \/ RepeatAfterUpdate = 2
                        \/ EndCount("no_facts") >= 2
            /\ ~SameIntentAsBefore => RepeatAfterUpdate = 0

\* the third turn is the second repeat of a general question and escalates
C7_Witness ==
    /\ pc = "end" /\ turn = 2
    /\ state.intent = "general"
    /\ StuckHandoffs(TurnActions) # {}
    /\ RepeatAfterUpdate = 2
    /\ EndCount("no_facts") = 0

\* C8: with pending_handoff true and a yes (no) from the classifier, the
\* intent stored by classify is handoff_yes (handoff_no) whatever intent the
\* classifier returned; otherwise it is the classifier's intent.
C8_PendingHandoffOverride ==
    pc = "resolve_facts" =>
        LET pending == Truthy(TurnMemory, "pending_handoff")
        IN  /\ (pending /\ nlu.yes_no = "yes") => state.intent = "handoff_yes"
            /\ (pending /\ nlu.yes_no = "no") => state.intent = "handoff_no"
            /\ (~pending \/ nlu.yes_no \notin {"yes", "no"})
                  => state.intent = nlu.intent

\* the classifier said "track" and "yes" while a handoff was pending
C8_Witness ==
    /\ pc = "resolve_facts"
    /\ Truthy(TurnMemory, "pending_handoff")
    /\ nlu.intent = "track" /\ nlu.yes_no = "yes"
    /\ state.intent = "handoff_yes"

\* C9: the facts resolve_facts returns are those of the first of email
\* lookup, fuzzy order id, order id in memory, top retrieval hit that yields
\* any, and none if none does.
C9_ResolutionPrecedence ==
    [][ (pc \in {"resolve_facts", "resolve_facts_2"} /\ pc' # pc /\ pc' # "raised") =>
          LET q == state.input
              mem == TurnMemory
              hits == Get(state, "hits", <<>>)
              orders2 == state'.orders
              byEmail == IF q.email # None /\ Len(orders2) > 0
                         THEN orders2[1] ELSE EmptyDict
              byFuzzy == IF q.fuzzy # None THEN get_order_facts(q.fuzzy)
                         ELSE EmptyDict
              byMemory == IF "current_order_id" \in DOMAIN mem
                          THEN get_order_facts(mem.current_order_id) ELSE EmptyDict
              byHit == IF Len(hits) > 0 THEN get_order_facts(hits[1]) ELSE EmptyDict
          IN  state'.order_facts =
                 IF byEmail # EmptyDict THEN byEmail
                 ELSE IF byFuzzy # EmptyDict THEN byFuzzy
                 ELSE IF byMemory # EmptyDict THEN byMemory
                 ELSE byHit ]_vars

\* the fuzzy match won over a different order known from memory
C9_Witness ==
    /\ pc = "policy_and_actions"
    /\ state.input.email = "e0" /\ state.input.fuzzy = "o3"
    /\ Get(store, "current_order_id", None) = "o1"
    /\ TurnFacts # EmptyDict /\ TurnFacts.order_id = "o3"

\* C10: every order_facts record resolve_facts returns carries is_delayed
\* and low_review, computed from delivery_time_days and review_score.
C10_FactsCarryDerivedFlags ==
    TurnFacts # EmptyDict =>
        /\ "is_delayed" \in DOMAIN TurnFacts
        /\ "low_review" \in DOMAIN TurnFacts
        /\ TurnFacts.is_delayed = (TurnFacts.delivery_time_days > 10)
        /\ TurnFacts.low_review = (TurnFacts.review_score <= 2)

\* the action records the reply shows in its "Actions taken:" section
Rendered(o) == IF o.kind \in {"kb", "grounded"} THEN o.acts ELSE <<>>

\* C11: at the end of a turn every action recorded in it is rendered in the
\* reply, whichever branch of compose built the reply.
C11_ActionsRendered ==
    pc = "end" => Rendered(state.output) = TurnActions

\* an action the policy engine appends for the intent, as opposed to a ticket
IntentSpecific(a) ==
    "cancel_id" \in DOMAIN a \/ "rma_id" \in DOMAIN a \/ "handoff" \in DOMAIN a

IntentSpecificIn(acts) == {i \in DOMAIN acts : IntentSpecific(acts[i])}

\* a step of the policy engine that returns, on resolved facts
PolicyReturns ==
    /\ pc = "policy_and_actions"
    /\ pc' = "supervise_and_escalate"
    /\ TurnFacts # EmptyDict

\* C12: with resolved facts and intent cancel the policy engine appends
\* exactly one intent-specific action, as the last one: a cancel record when
\* the status is created, approved, processing or shipped, otherwise a
\* handoff record with the issue "cancel after delivery not supported" and
\* the status attached; never a return record.
C12_CancelPolicy ==
    [][ (PolicyReturns /\ state.intent = "cancel") =>
          LET acts2 == state'.actions
              last == acts2[Len(acts2)]
              oid == TurnFacts.order_id
              status == TurnFacts.order_status
          IN  /\ IntentSpecificIn(acts2) = {Len(acts2)}
              /\ Len(acts2) >= 1
              /\ IF status \in {"created", "approved", "processing", "shipped"}
                 THEN last = [cancel_id |-> <<"CXL", oid>>, status |-> "requested",
                              reason |-> <<"user requested cancel">>]
                 ELSE /\ DOMAIN last = {"handoff", "status", "order_id", "issue",
                                        "extra", "notified_slack", "notified_email"}
                      /\ last.handoff = TRUE
                      /\ last.order_id = oid
                      /\ last.issue = <<"cancel after delivery not supported">>
                      /\ last.extra = [status |-> status] ]_vars

\* a cancel request for a shipped order has been turned into a cancel record
C12_Witness ==
    /\ pc = "supervise_and_escalate"
    /\ state.intent = "cancel"
    /\ TurnFacts # EmptyDict /\ TurnFacts.order_status = "shipped"
    /\ Len(TurnActions) > 0
    /\ "cancel_id" \in DOMAIN TurnActions[Len(TurnActions)]

\* C13: with resolved facts and intent refund or return the policy engine
\* evaluates the eligibility with a window of 30 days and appends exactly one
\* intent-specific action, as the last one: a return record tagged with the
\* intent when eligible, otherwise a handoff record with the issue
\* "<intent> not eligible" and the eligibility result attached; for an intent
\* other than refund, return and cancel it appends no intent-specific action.
C13_ReturnPolicy ==
    [][ (PolicyReturns /\ state.intent # "cancel") =>
          LET acts2 == state'.actions
              last == acts2[Len(acts2)]
              oid == TurnFacts.order_id
              intent == Lower(state.intent)
          IN  IF intent \in {"refund", "return"}
              THEN /\ IntentSpecificIn(acts2) = {Len(acts2)}
                   /\ Len(acts2) >= 1
                   /\ \E today \in TodayAnchors :
                        LET elig == check_return_eligibility(TurnFacts, 30, today)
                        IN  IF elig.eligible
                            THEN last = [rma_id |-> <<"RMA", oid>>, status |-> "initiated",
                                         reason |-> <<"user requested", intent>>]
                            ELSE /\ "handoff" \in DOMAIN last
                                 /\ last.handoff = TRUE
                                 /\ last.order_id = oid
                                 /\ last.issue = <<intent, "not eligible">>
                                 /\ last.extra = [eligibility |-> elig]
              ELSE IntentSpecificIn(acts2) = {} ]_vars

\* a refund request for an order inside the window has started a return
\* tagged "refund"
C13_Witness ==
    /\ pc = "supervise_and_escalate"
    /\ state.intent = "refund"
    /\ Len(TurnActions) > 0
    /\ "rma_id" \in DOMAIN TurnActions[Len(TurnActions)]
    /\ TurnActions[Len(TurnActions)].reason = <<"user requested", "refund">>

\* the tickets due for an order: low review first, late delivery second
TicketsDue(facts) ==
    (IF facts.review_score <= 2
     THEN << [ticket_id |-> <<"TKT", facts.order_id>>, status |-> "open",
              issue |-> <<"low review complaint">>] >>
     ELSE <<>>)
    \o
    (IF facts.delivery_time_days > 10
     THEN << [ticket_id |-> <<"TKT", facts.order_id>>, status |-> "open",
              issue |-> <<"late delivery">>] >>
     ELSE <<>>)

\* C14: on every turn with resolved facts, whatever the intent and whichever
\* strategy resolved them, the actions begin with the ticket "low review
\* complaint" if the order's review score is 2 or less, then the ticket
\* "late delivery" if its delivery took more than 10 days, and hold no other
\* ticket; an intent-specific action comes after them.
C14_TicketsForFlaggedOrders ==
    [][ PolicyReturns =>
          LET acts2 == state'.actions
              due == TicketsDue(TurnFacts)
          IN  /\ Len(acts2) >= Len(due)
              /\ SubSeq(acts2, 1, Len(due)) = due
              /\ \A i \in DOMAIN acts2 :
                    i > Len(due) => "ticket_id" \notin DOMAIN acts2[i] ]_vars

\* a delivery date can be computed from the facts
Computable(facts) ==
    /\ facts # EmptyDict
    /\ "purchase_date" \in DOMAIN facts
    /\ facts.purchase_date # NaT
    /\ "delivery_time_days" \in DOMAIN facts

\* C15: when the delivery date (purchase date + delivery_time_days) is
\* computable, check_return_eligibility reports eligible exactly when the
\* days from the delivery date to the anchor are <= the window, and when
\* they are more it reports ineligible with the delivered date; purchase
\* 2018-01-01, 5 days, window 30: anchor 2018-01-20 is eligible after 14
\* days, anchor 2018-03-01 is ineligible.
C15_EligibilityWindow ==
    (pc = "returned" /\ Computable(state.facts)) =>
        LET f == state.facts
            r == state.eligibility
            delivered == f.purchase_date + f.delivery_time_days
            days == state.today - delivered
            example == /\ f.purchase_date = 0 /\ f.delivery_time_days = 5
                       /\ state.window_days = 30
        IN  /\ r.eligible = (days <= state.window_days)
            /\ ~r.eligible => r.reason = <<"outside window (delivered)", delivered>>
            /\ (example /\ state.today = 19) => (days = 14 /\ r.eligible)
            /\ (example /\ state.today = 59) => ~r.eligible

\* an order delivered exactly 30 days before the anchor is eligible
C15_Witness ==
    /\ pc = "returned"
    /\ Computable(state.facts)
    /\ state.today - (state.facts.purchase_date + state.facts.delivery_time_days) = 30
    /\ state.window_days = 30
    /\ state.eligibility.eligible

\* C16: when no delivery date is computable, check_return_eligibility
\* reports ineligible: "no order facts" without facts, the suggestion to
\* cancel when the status is created, approved, processing or shipped, and
\* "missing delivery date info" for any other status.
C16_NoDeliveryDate ==
    (pc = "returned" /\ ~Computable(state.facts)) =>
        LET f == state.facts
            r == state.eligibility
        IN  /\ ~r.eligible
            /\ IF f = EmptyDict THEN r.reason = <<"no order facts">>
               ELSE IF f.order_status \in {"created", "approved", "processing", "shipped"}
               THEN "suggest" \in DOMAIN r /\ r.suggest = "cancel"
               ELSE r.reason = <<"missing delivery date info">>

\* C17: when the email lookup returned n >= 1 orders (at most 10) and no
\* auto-handoff is flagged, the reply is the order listing: its header gives
\* the count n and it has exactly min(n, 5) lines, those of the first orders
\* of the lookup, which are the customer's orders by descending purchase date.
C17_OrderListing ==
    (/\ pc = "end"
     /\ Len(Get(state, "orders", <<>>)) > 0
     /\ ~Truthy(TurnMemory, "auto_handoff"))
        => LET orders == state.orders
               n == Len(orders)
               o == state.output
               known == Cardinality(RowsOfEmail(state.input.email))
           IN  /\ n = IF known < 10 THEN known ELSE 10
               /\ \A i \in 1..n : orders[i].customer_email = state.input.email
               /\ \A i, j \in 1..n :
                     i < j => orders[i].purchase_date >= orders[j].purchase_date
               /\ o.kind = "orders"
               /\ o.count = n
               /\ Len(o.lines) = IF n < 5 THEN n ELSE 5
               /\ \A i \in DOMAIN o.lines : o.lines[i] = orders[i].order_id

\* eleven known orders, ten returned: the header says 10 and five lines follow
C17_Witness ==
    /\ pc = "end"
    /\ Len(Get(state, "orders", <<>>)) = 10
    /\ state.output.kind = "orders"
    /\ state.output.count = 10
    /\ Len(state.output.lines) = 5

\* the log line is the record of the action a
Logs(line, a) ==
    IF "cancel_id" \in DOMAIN a
    THEN /\ "type" \in DOMAIN line /\ line.type = "cancel"
         /\ a.cancel_id = <<"CXL", line.order_id>>
    ELSE IF "rma_id" \in DOMAIN a
    THEN /\ "type" \in DOMAIN line /\ line.type = "return"
         /\ a.rma_id = line.rma_id
    ELSE IF "handoff" \in DOMAIN a
    THEN /\ "handoff" \in DOMAIN line
         /\ line.order_id = a.order_id /\ line.issue = a.issue /\ line.extra = a.extra
    ELSE /\ "ticket_id" \in DOMAIN line
         /\ line.ticket_id = a.ticket_id /\ line.issue = a.issue

\* C18: at the end of a turn every action record produced in it (cancel,
\* return, ticket, handoff) has been appended to the log, one line each.
C18_EveryActionLogged ==
    pc = "end" =>
        /\ Len(logged) = Len(TurnActions)
        /\ \A i \in DOMAIN TurnActions : \E j \in DOMAIN logged : Logs(logged[j], TurnActions[i])

\* C19: a node that executes an action (cancel, start-return, escalate) does
\* not end the invocation with a fault when the append to the action log or
\* the handoff log fails: it returns and the graph goes on towards compose.
C19_LogFailureTolerated ==
    [][ (pc \in {"policy_and_actions", "supervise_and_escalate"})
          => (pc' \in {"supervise_and_escalate", "compose"}) ]_vars

\* C20: a fault raised inside the graph invocation is not propagated by
\* handle_user_message: the reply of the turn is the apology, and the memory
\* kept for the next turn is the memory that was kept before the turn (no
\* step of a turn but its successful completion changes it).
C20_FaultBecomesApology ==
    [][ /\ (pc # "end") => (store' = store)
        /\ (pc = "raised") => (pc' = "idle" /\ answer' = [kind |-> "apology"]) ]_vars

\* the second turn failed after its nodes had changed the turn's memory, and
\* the memory kept is still the one the first turn left
C20_Witness ==
    /\ pc = "idle" /\ turn = 2
    /\ answer = [kind |-> "apology"]
    /\ Get(store, "last_intent", "") = "payment"
    /\ "current_order_id" \notin DOMAIN store

\* C21: whenever the call fails or the reply cannot be parsed as the JSON
\* object asked for, nlu_classify returns the intent of the keyword rule,
\* with empty slots and no yes_no
C21_KeywordFallback ==
    (pc = "returned" /\ "outcome" \in DOMAIN state /\ state.outcome # "parsed")
        => state.result = [intent |-> KeywordIntent(state.user_input),
                           slots |-> EmptyDict, yes_no |-> None]

\* C22: the intent in the turn state is always one of the ten labels
C22_IntentIsALabel == "intent" \in DOMAIN state => state.intent \in Labels

SlotKeys ==
    { <<"order_id", "current_order_id">>, <<"email", "current_email">>,
      <<"reason", "last_reason">> }

\* the key k is in both dicts with one value, or in neither
SameAt(d, e, k) ==
    /\ k \in DOMAIN d <=> k \in DOMAIN e
    /\ k \in DOMAIN d => d[k] = e[k]

\* C23: in classify every non-empty slot of the classifier's reply overwrites
\* its memory key, an empty or absent slot leaves its key as it was, and
\* every other memory key is as it was
C23_SlotsIntoMemory ==
    [][ (pc = "classify" /\ pc' = "resolve_facts") =>
          (LET old == Get(state, "memory", EmptyDict)
               new == state'.memory
               slots == nlu'.slots
           IN  /\ \A p \in SlotKeys :
                     IF p[1] \in DOMAIN slots /\ slots[p[1]] \notin {None, ""}
                     THEN p[2] \in DOMAIN new /\ new[p[2]] = slots[p[1]]
                     ELSE SameAt(old, new, p[2])
               /\ \A k \in (DOMAIN old \cup DOMAIN new) \ {p[2] : p \in SlotKeys} :
                     SameAt(old, new, k)) ]_vars

\* classify has stored a reason while the order id remembered from an
\* earlier turn survived an empty order_id slot
C23_Witness ==
    /\ pc = "resolve_facts"
    /\ nlu.slots = [order_id |-> "", email |-> None, reason |-> "damaged"]
    /\ Get(store, "current_order_id", None) = "o2"
    /\ "last_reason" \notin DOMAIN store
    /\ state.memory.current_order_id = "o2"
    /\ state.memory.last_reason = "damaged"

\* the turn's text has no email and no order id that fuzzy matching finds,
\* and the memory names an order that is in the data
FromMemoryOnly(st) ==
    /\ st.input.email = None
    /\ st.input.fuzzy = None
    /\ "current_order_id" \in DOMAIN st.memory
    /\ get_order_facts(st.memory.current_order_id) # EmptyDict

\* C24: when only the memory names the order, resolve_facts returns that
\* order's facts and the memory it was given, and resolve_facts applied to
\* the state it has produced returns the same facts and memory again
C24_ResolveFromMemory ==
    [][ (pc = "resolve_facts" /\ FromMemoryOnly(state)) =>
          (/\ state'.order_facts = get_order_facts(state.memory.current_order_id)
           /\ state'.order_facts.order_id = state.memory.current_order_id
           /\ state'.memory = state.memory
           /\ \A csv_ok \in BOOLEAN :
                 /\ ResolveFacts(state', csv_ok).order_facts = state'.order_facts
                 /\ ResolveFacts(state', csv_ok).memory = state'.memory) ]_vars

\* the first resolve has found order o2 through the memory of an earlier turn
C24_Witness ==
    /\ pc = "policy_and_actions"
    /\ trace = <<"classify", "resolve_facts">>
    /\ FromMemoryOnly(state)
    /\ Get(store, "current_order_id", None) = "o2"
    /\ state.memory = Merge(store, state.memory)
    /\ state.order_facts.order_id = "o2"

\* C25: in facts fetched by order id, is_delayed says that delivery_time_days
\* is present and above 10 (false at 10, true at 11) and low_review says that
\* review_score is present and at most 2 (true at 1, false at 3)
C25_PolicyFlags ==
    (pc = "returned" /\ "meta" \in DOMAIN state /\ state.facts # EmptyDict) =>
        LET row == state.meta[1]
            f == state.facts
            days == Get(row, "delivery_time_days", 0)
            score == Get(row, "review_score", 5)
        IN  /\ f.is_delayed = ("delivery_time_days" \in DOMAIN row /\ days > 10)
            /\ f.low_review = ("review_score" \in DOMAIN row /\ score <= 2)
            /\ days = 10 => ~f.is_delayed
            /\ days = 11 => f.is_delayed
            /\ score = 1 => f.low_review
            /\ score = 3 => ~f.low_review

\* the facts of an order delivered in 11 days and reviewed with 3
C25_Witness ==
    /\ pc = "returned"
    /\ "meta" \in DOMAIN state
    /\ state.facts # EmptyDict
    /\ state.facts.order_id = state.order_id
    /\ Get(state.facts, "delivery_time_days", 0) = 11
    /\ Get(state.facts, "review_score", 0) = 3
    /\ state.facts.is_delayed
    /\ ~state.facts.low_review

\* the invocation in progress has searched with an index that was not there
IndexUnavailable == indexes # EmptyDict /\ (~indexes.orders \/ ~indexes.kb)

C27_LoadedAtMostOnce ==
    "loads" \in DOMAIN state => \A i \in DOMAIN Handles : state.loads[i] <= 1

\* C28: the memory a completed turn hands on has last_intent equal to the
\* intent of the turn state, whether or not the turn escalated
C28_LastIntentIsIntent ==
    [][ (pc = "end") => (Get(store', "last_intent", None) = state.intent) ]_vars

\* what does hold: it is the lower-cased intent that is handed on
LastIntentIsLoweredIntent ==
    [][ (pc = "end") => (Get(store', "last_intent", None) = Lower(state.intent)) ]_vars

Paths ==
    { <<"classify", "resolve_facts", "policy_and_actions",
        "supervise_and_escalate", "compose">>,
      <<"classify", "resolve_facts", "retrieve", "resolve_facts_2",
        "policy_and_actions", "supervise_and_escalate", "compose">>,
      <<"classify", "resolve_facts", "retrieve", "resolve_facts_2",
        "supervise_and_escalate", "compose">> }

IsPrefix(s, t) == Len(s) <= Len(t) /\ \A i \in DOMAIN s : s[i] = t[i]

Ran(node) == node \in {trace[i] : i \in DOMAIN trace}

InTurn == pc \notin {"idle", "end", "raised"}

\* the nodes run so far, and the node about to run, follow one of the three
\* paths; retrieve is entered without facts and policy with facts; a run
\* that reaches the end has followed a whole path, through policy exactly
\* when there are facts
NodeOrder ==
    /\ \E p \in Paths : IsPrefix(IF InTurn THEN Append(trace, pc) ELSE trace, p)
    /\ pc = "retrieve" => TurnFacts = EmptyDict
    /\ pc = "policy_and_actions" => TurnFacts # EmptyDict
    /\ pc = "end" => /\ trace \in Paths
                     /\ Ran("policy_and_actions") <=> TurnFacts # EmptyDict

\* C29: within a turn the nodes run along classify, resolve_facts, then
\* policy if there are facts and otherwise retrieve, resolve_facts_2 and
\* policy only if there are facts now, then the supervisor, then compose,
\* each at most once; and every turn that has started comes to its end
C29_NodeOrderAndTermination ==
    /\ []NodeOrder
    /\ (pc = "classify") ~> (pc = "idle")

\* a run has gone the long way: no facts at first, facts after retrieval
C29_Witness ==
    /\ pc = "end"
    /\ trace = <<"classify", "resolve_facts", "retrieve", "resolve_facts_2",
                 "policy_and_actions", "supervise_and_escalate", "compose">>

\* both counters of a memory are numbers from 0 to one below their threshold
CountersInRange(mem) ==
    "stuck_counts" \in DOMAIN mem =>
        /\ mem.stuck_counts.repeat_intent \in 0..(MAX_REPEAT_INTENT - 1)
        /\ mem.stuck_counts.no_facts \in 0..(MAX_NO_FACTS - 1)

\* C30: in a conversation that started with empty memory, the memory every
\* turn returns, and the memory kept for the next turn, has both stuck
\* counters at 0 or above and below their thresholds
C30_CountersBelowThreshold ==
    /\ AUTO_ESCALATE_ON
    /\ CountersInRange(store)
    /\ pc \in {"compose", "end"} =>
          ("stuck_counts" \in DOMAIN TurnMemory /\ CountersInRange(TurnMemory))

\* a turn that escalated with a counter at its threshold has returned a
\* memory with both counters back at 0
C30_Witness ==
    /\ pc = "end"
    /\ "stuck_counts" \in DOMAIN store
    /\ store.stuck_counts.no_facts = MAX_NO_FACTS - 1
    /\ StuckHandoffs(TurnActions) # {}
    /\ TurnActions[CHOOSE i \in StuckHandoffs(TurnActions) : TRUE].extra.no_facts
           = MAX_NO_FACTS
    /\ TurnMemory.stuck_counts = [repeat_intent |-> 0, no_facts |-> 0]

\* the sequence holds the n most recent CSV rows of the email, most recent
\* first, n being their number or 10 if there are more
MostRecentOf(orders, email) ==
    LET S == RowsOfEmail(email)
        In == {orders[i] : i \in DOMAIN orders}
    IN  /\ Len(orders) = (IF Cardinality(S) < 10 THEN Cardinality(S) ELSE 10)
        /\ Cardinality(In) = Len(orders)
        /\ In \subseteq {CsvRows[i] : i \in S}
        /\ \A i \in DOMAIN orders : \A j \in DOMAIN orders :
              i < j => orders[i].purchase_date >= orders[j].purchase_date
        /\ \A i \in S : CsvRows[i] \notin In =>
              \A j \in DOMAIN orders : orders[j].purchase_date >= CsvRows[i].purchase_date

\* the turn state as the later strategies see it after an email lookup that
\* gave no order
AfterEmptyLookup(st) ==
    [st EXCEPT !.input.email = None,
               !.memory = Put(st.memory, "current_email", st.input.email)]

\* C31: when the text holds an email, resolve_facts stores it as
\* current_email; orders is either the at most 10 most recent orders of that
\* email, most recent first, with order_facts the first of them and
\* current_order_id its id, or, when the lookup fails or finds none, empty,
\* with the outcome that of the later strategies
C31_EmailLookup ==
    [][ (pc \in {"resolve_facts", "resolve_facts_2"} /\ state.input.email # None) =>
          (/\ state'.memory.current_email = state.input.email
           /\ \/ /\ RowsOfEmail(state.input.email) # {}
                 /\ MostRecentOf(state'.orders, state.input.email)
                 /\ state'.order_facts = state'.orders[1]
                 /\ state'.memory.current_order_id = state'.orders[1].order_id
              \/ /\ state'.orders = <<>>
                 /\ state'.order_facts =
                        ResolveFacts(AfterEmptyLookup(state), TRUE).order_facts
                 /\ state'.memory = ResolveFacts(AfterEmptyLookup(state), TRUE).memory) ]_vars

\* the lookup has found the eleven orders of e1 and returned ten, o2 first
C31_Witness ==
    /\ pc = "policy_and_actions"
    /\ state.input.email = "e1"
    /\ Cardinality(RowsOfEmail("e1")) = 11
    /\ Len(state.orders) = 10
    /\ state.order_facts = state.orders[1]
    /\ state.memory.current_order_id = "o2"
    /\ state.memory.current_email = "e1"

\* C32: when a resolve node returns facts, the memory it returns names their
\* order as current_order_id; when it returns none, current_order_id is as
\* it was and the graph goes on to the next node
C32_ResolvedIdRemembered ==
    [][ (pc \in {"resolve_facts", "resolve_facts_2"}) =>
          (IF state'.order_facts # EmptyDict
           THEN /\ "current_order_id" \in DOMAIN state'.memory
                /\ state'.memory.current_order_id = state'.order_facts.order_id
                /\ pc' = "policy_and_actions"
           ELSE /\ SameAt(Get(state, "memory", EmptyDict), state'.memory,
                          "current_order_id")
                /\ pc' = (IF pc = "resolve_facts" THEN "retrieve"
                          ELSE "supervise_and_escalate")) ]_vars

\* the second resolve has taken the order of the first retrieval hit, o1,
\* for a text without email or order id
C32_Witness ==
    /\ pc = "policy_and_actions"
    /\ trace = <<"classify", "resolve_facts", "retrieve", "resolve_facts_2">>
    /\ state.input.email = None
    /\ state.input.fuzzy = None
    /\ state.hits[1] = "o1"
    /\ state.order_facts.order_id = "o1"
    /\ state.memory.current_order_id = "o1"

IsTicket(a) == "ticket_id" \in DOMAIN a

\* C33: the policy node only appends to the action list, at most three
\* records of which at most two are tickets and at most one is a cancel,
\* return or escalation; and when the graph reaches the supervisor without
\* order facts, no action has been recorded and nothing has been logged
C33_PolicyActionsBounded ==
    [][ /\ (pc = "policy_and_actions" /\ pc' = "supervise_and_escalate") =>
              (LET old == Get(state, "actions", <<>>)
                   new == state'.actions
                   added == {i \in DOMAIN new : i > Len(old)}
               IN  /\ IsPrefix(old, new)
                   /\ Cardinality(added) <= 3
                   /\ Cardinality({i \in added : IsTicket(new[i])}) <= 2
                   /\ Cardinality({i \in added : ~IsTicket(new[i])}) <= 1
                   /\ TurnFacts = EmptyDict => (new = old /\ logged' = logged))
        /\ (pc' = "supervise_and_escalate" /\ Get(state', "order_facts", EmptyDict) = EmptyDict) =>
              (Get(state', "actions", <<>>) = <<>> /\ logged' = <<>>) ]_vars

\* the policy node has appended three records: two tickets and a cancel
C33_Witness ==
    /\ pc = "supervise_and_escalate"
    /\ Len(TurnActions) = 3
    /\ IsTicket(TurnActions[1])
    /\ IsTicket(TurnActions[2])
    /\ "cancel_id" \in DOMAIN TurnActions[3]
    /\ Len(logged) = 1

\* a ticket with this issue is among the records from position n + 1 on
TicketAdded(acts, n, issue) ==
    \E i \in DOMAIN acts : i > n /\ IsTicket(acts[i]) /\ acts[i].issue = issue

\* C34: the policy, supervisor and compose nodes leave order_facts as the
\* resolve node returned it, and the policy node opens a ticket exactly when
\* the flag stored in the facts is true
C34_FactsOnlyRead ==
    [][ /\ (pc \in {"policy_and_actions", "supervise_and_escalate", "compose"}) =>
              (/\ "order_facts" \in DOMAIN state' <=> "order_facts" \in DOMAIN state
               /\ Get(state', "order_facts", EmptyDict) = TurnFacts)
        /\ (pc = "policy_and_actions" /\ pc' = "supervise_and_escalate") =>
              (LET n == Len(Get(state, "actions", <<>>))
               IN  /\ TicketAdded(state'.actions, n, <<"low review complaint">>)
                          <=> Truthy(TurnFacts, "low_review")
                   /\ TicketAdded(state'.actions, n, <<"late delivery">>)
                          <=> Truthy(TurnFacts, "is_delayed")) ]_vars

\* a turn has ended with the flagged facts of o2 as they were fetched, after
\* the policy node opened both tickets
C34_Witness ==
    /\ pc = "end"
    /\ Ran("policy_and_actions")
    /\ TurnFacts = get_order_facts("o2")
    /\ TurnFacts.low_review
    /\ TurnFacts.is_delayed
    /\ TicketAdded(TurnActions, 0, <<"low review complaint">>)
    /\ TicketAdded(TurnActions, 0, <<"late delivery">>)

\* C35: a reply built by the knowledge-base branch or the order-grounded
\* branch is the generated answer followed by a section that lists the
\* actions recorded in the turn, each once and in the order they were taken,
\* and it is the answer alone when none was recorded
C35_ActionsSection ==
    (pc = "end" /\ state.output.kind \in {"kb", "grounded"}) =>
        /\ state.output.text \in GenerationResults
        /\ state.output.acts = TurnActions

\* an order-grounded reply lists the two tickets and the cancel of its turn
C35_Witness ==
    /\ pc = "end"
    /\ state.output.kind = "grounded"
    /\ Len(TurnActions) = 3
    /\ "cancel_id" \in DOMAIN TurnActions[3]
    /\ state.output.acts = TurnActions

\* C36: in a conversation from empty memory no memory, stored or in the turn
\* state, has pending_handoff set, and the intent classify writes is the one
\* the classifier returned: the override is not taken
C36_NeverPending ==
    /\ ~Truthy(store, "pending_handoff")
    /\ ~Truthy(TurnMemory, "pending_handoff")
    /\ (pc = "resolve_facts" /\ nlu # EmptyDict) => state.intent = nlu.intent

\* after an escalation the classifier reports a yes, and the intent is
\* still the classifier's
C36_Witness ==
    /\ pc = "resolve_facts"
    /\ nlu # EmptyDict
    /\ Truthy(store, "auto_handoff")
    /\ nlu.yes_no = "yes"
    /\ state.intent = nlu.intent
    /\ state.intent = "general"

\* C37: a supervisor step that appends its handoff record starts from an
\* empty action list, so that record is the only action of the turn
C37_HandoffIsOnlyAction ==
    [][ (/\ pc = "supervise_and_escalate"
         /\ pc' = "compose"
         /\ Len(state'.actions) > Len(TurnActions)) =>
          (/\ TurnActions = <<>>
           /\ Len(state'.actions) = 1
           /\ StuckHandoffs(state'.actions) = {1}) ]_vars

\* the trigger has fired in a turn in which the policy node ran on resolved
\* facts and recorded nothing
C37_Witness ==
    /\ pc = "compose"
    /\ Ran("policy_and_actions")
    /\ TurnFacts # EmptyDict
    /\ Len(TurnActions) = 1
    /\ StuckHandoffs(TurnActions) = {1}
    /\ TurnActions[1].extra.repeat_intent = MAX_REPEAT_INTENT

\* the turn that has just ended had an order-requiring intent and no facts
StuckOnOrder == Lower(state.intent) \in OrderRequired /\ TurnFacts = EmptyDict

\* the no-facts count in the memory the turn started from
NoFactsBefore == Get(Get(store, "stuck_counts", EmptyDict), "no_facts", 0)

\* C38: a completed turn with an order-requiring intent and no facts either
\* records the auto-handoff or returns the no-facts count 1, and it records
\* the auto-handoff when it started from the count 1, that is, when the turn
\* before it was of the same kind: the second of two such turns at the
\* latest escalates
C38_NoFactsEscalatesBySecondTurn ==
    (pc = "end" /\ StuckOnOrder) =>
        IF NoFactsBefore >= 1
        THEN StuckHandoffs(TurnActions) # {}
        ELSE \/ StuckHandoffs(TurnActions) # {}
             \/ TurnMemory.stuck_counts.no_facts = 1

\* the second of two turns without facts, with different order-requiring
\* intents, has escalated on the no-facts count alone
C38_Witness ==
    /\ pc = "end"
    /\ StuckOnOrder
    /\ NoFactsBefore = 1
    /\ Get(store, "last_intent", None) # Lower(state.intent)
    /\ StuckHandoffs(TurnActions) = {1}
    /\ TurnActions[1].extra.no_facts = 2
    /\ TurnActions[1].extra.repeat_intent = 0

Nodes ==
    {"classify", "resolve_facts", "retrieve", "resolve_facts_2",
     "policy_and_actions", "supervise_and_escalate", "compose"}

C40_VerdictIgnoresStatus ==
    (pc = "returned" /\ Computable(state.facts)) =>
        LET f == state.facts
            r == state.eligibility
            days == state.today - (f.purchase_date + f.delivery_time_days)
        IN  /\ \A s \in Statuses :
                  check_return_eligibility(Put(f, "order_status", s),
                                           state.window_days, state.today).eligible
                    = r.eligible
            /\ (/\ \/ f.order_status \in {"canceled", "shipped", "created"}
                    \/ days < 0
                /\ days <= state.window_days) => r.eligible

\* a canceled order whose delivery date lies after the anchor is eligible
C40_Witness ==
    /\ pc = "returned"
    /\ Computable(state.facts)
    /\ state.facts.order_status = "canceled"
    /\ state.today - (state.facts.purchase_date + state.facts.delivery_time_days) < 0
    /\ state.eligibility.eligible

=============================================================================
